---- MODULE Spec2Model ----
(***************************************************************************)
(* Verification model of meshgraphnets_pytorch: the online Normalizer      *)
(* (normalization.py), the cloth Model (cloth_model.py) and the            *)
(* deforming-plate Model (deform_model.py).                                *)
(*                                                                         *)
(* Numbers are integers (fixed point where the source uses floats).  A     *)
(* call result is a record whose field err is "none" for a normal return   *)
(* and otherwise the name of the Python exception the call raises.         *)
(*                                                                         *)
(* Library facts the translation rests on:                                 *)
(*  - Tensor.add(...) is out of place: it returns a new tensor and leaves  *)
(*    its receiver alone (the in-place form is Tensor.add_);               *)
(*  - torch.Size is a tuple subclass and has no method tolist, so          *)
(*    batched_data.size().tolist() raises AttributeError;                  *)
(*  - torch.maximum(input, other) takes two tensors; a Python float as     *)
(*    other raises TypeError;                                              *)
(*  - a Python call with more positional arguments than the signature      *)
(*    takes raises TypeError before the callee's body runs.                *)
(***************************************************************************)
EXTENDS Integers, Sequences, FiniteSets, TLC

VARIABLES
  nz,        \* the Normalizer under test: its accumulators and its cap
  nzPre,     \* nz as it was before the last operation
  nzOut,     \* the last operation on nz: its arguments and its result
  nzEvents,  \* number of accumulate=True calls made on nz so far (capped)
  gIn,       \* inputs of the last deforming-plate graph construction
  gOut,      \* what that construction computed
  variant,   \* which Model this instance is: "cloth" or "deform"
  norms,     \* the Model's Normalizers, by attribute name
  learned,   \* the Model's learned_model (opaque parameters, as a version)
  training,  \* nn.Module.training of the Model instance
  files,     \* the blobs torch.save wrote, by path
  mPre,      \* norms and learned as they were before the last operation
  mOut       \* the last operation on the Model: its arguments and its result

nvars == <<nz, nzPre, nzOut, nzEvents>>
gvars == <<gIn, gOut>>
mvars == <<variant, norms, learned, training, files, mPre, mOut>>
vars == <<nz, nzPre, nzOut, nzEvents, gIn, gOut,
          variant, norms, learned, training, files, mPre, mOut>>

(***************************************************************************)
(* Bounds                                                                  *)
(***************************************************************************)
\* feature dimension of the Normalizer under test: size=1, as the
\* deforming-plate Model constructs its node-dynamic Normalizer
Size == 1
\* most rows in one batch
MaxRows == 2
\* largest max_accumulations the Normalizer under test is constructed with
\* (the default 10**6 scaled down)
MaxCap == 2
\* accumulate=True calls counted on the Normalizer under test
MaxEvents == 3

\* feature values
Vals == {-1, 2}
Rows == [1..Size -> Vals]
RECURSIVE SeqsUpTo(_, _)
SeqsUpTo(S, n) ==
  IF n = 0 THEN {<<>>}
  ELSE LET shorter == SeqsUpTo(S, n - 1)
       IN shorter \cup {Append(s, e) : s \in {t \in shorter : Len(t) = n - 1}, e \in S}
Batches == SeqsUpTo(Rows, MaxRows)

NoErr == "none"

(***************************************************************************)
(* normalization.py                                                        *)
(***************************************************************************)
\* Normalizer.__init__: the four accumulators start at zero.
Normalizer(size, max_accumulations) ==
  [max_accumulations |-> max_accumulations,
   acc_count         |-> 0,
   num_accumulations |-> 0,
   acc_sum           |-> [i \in 1..size |-> 0],
   acc_sum_squared   |-> [i \in 1..size |-> 0]]

\* torch.sum(batched_data, dim=0) and torch.sum(batched_data**2, dim=0),
\* one feature at a time
RECURSIVE ColSum(_, _)
ColSum(batch, i) ==
  IF batch = <<>> THEN 0 ELSE Head(batch)[i] + ColSum(Tail(batch), i)
RECURSIVE ColSumSq(_, _)
ColSumSq(batch, i) ==
  IF batch = <<>> THEN 0
  ELSE Head(batch)[i] * Head(batch)[i] + ColSumSq(Tail(batch), i)

\* len(batched_data.size()): a batch of rows is a rank-2 tensor
Dimension(batch) == 2

\* The accumulation as TensorFlow's assign_add did it (the commented-out
\* lines of _accumulate), with the count the PyTorch port computes: the
\* form _accumulate would take with in-place adds.
AccumulateInPlace(n, batched_data) ==
  [n |-> [n EXCEPT
            !.acc_sum = [i \in DOMAIN n.acc_sum |->
                           n.acc_sum[i] + ColSum(batched_data, i)],
            !.acc_sum_squared = [i \in DOMAIN n.acc_sum_squared |->
                           n.acc_sum_squared[i] + ColSumSq(batched_data, i)],
            !.acc_count = n.acc_count + Dimension(batched_data),
            !.num_accumulations = n.num_accumulations + 1],
   err |-> NoErr]

\* Normalizer._accumulate.  Line 52 calls tolist() on a torch.Size, which
\* raises AttributeError, so the sums of lines 56-59 are never formed; the
\* four adds of lines 61-64 are out of place and their results are dropped.
\* Either way the accumulators are left as they were.
_accumulate(n, batched_data) ==
  [n |-> n, err |-> "AttributeError"]

\* Normalizer._mean: torch.maximum(self._acc_count, 1.) raises TypeError.
_mean(n) ==
  [err |-> "TypeError", val |-> <<>>]

\* Normalizer._std_with_epsilon: the same torch.maximum call, first line.
_std_with_epsilon(n) ==
  [err |-> "TypeError", val |-> <<>>]

\* The call that accumulates in place whatever the flag and the cap say.
CallAccumulatesAlways(n, batched_data, accumulate) ==
  LET a == AccumulateInPlace(n, batched_data)
  IN [n |-> a.n, err |-> _mean(a.n).err, val |-> <<>>]

\* Normalizer.__call__: accumulate when asked and below the cap, then
\* (batched_data - mean) / std, the mean evaluated first.
Normalizer_call(n, batched_data, accumulate) ==
  LET a == IF accumulate /\ n.num_accumulations < n.max_accumulations
           THEN _accumulate(n, batched_data)
           ELSE [n |-> n, err |-> NoErr]
      m == _mean(a.n)
      s == _std_with_epsilon(a.n)
  IN IF a.err # NoErr THEN [n |-> a.n, err |-> a.err, val |-> <<>>]
     ELSE IF m.err # NoErr THEN [n |-> a.n, err |-> m.err, val |-> <<>>]
     ELSE IF s.err # NoErr THEN [n |-> a.n, err |-> s.err, val |-> <<>>]
     ELSE [n |-> a.n, err |-> NoErr,
           val |-> [r \in DOMAIN batched_data |->
                      [i \in DOMAIN batched_data[r] |->
                         (batched_data[r][i] - m.val[i]) \div s.val[i]]]]

\* Normalizer.inverse: normalized * std + mean, the std evaluated first.
inverse(n, normalized_batch_data) ==
  LET s == _std_with_epsilon(n)
      m == _mean(n)
  IN IF s.err # NoErr THEN [n |-> n, err |-> s.err, val |-> <<>>]
     ELSE IF m.err # NoErr THEN [n |-> n, err |-> m.err, val |-> <<>>]
     ELSE [n |-> n, err |-> NoErr,
           val |-> [r \in DOMAIN normalized_batch_data |->
                      [i \in DOMAIN normalized_batch_data[r] |->
                         normalized_batch_data[r][i] * s.val[i] + m.val[i]]]]

(***************************************************************************)
(* The Normalizer under test and the calls a driver makes on it            *)
(***************************************************************************)
\* before: the accumulate=True calls made before this operation
NzIdle == [op |-> "init", accumulate |-> FALSE, x |-> <<>>, y |-> <<>>,
           err |-> NoErr, val |-> <<>>, alt |-> <<>>, before |-> 0]

Bump(k) == IF k < MaxEvents THEN k + 1 ELSE k

\* normalizer(batched_data, accumulate)
NzCall(x, accumulate) ==
  LET r == Normalizer_call(nz, x, accumulate)
  IN /\ nz' = r.n
     /\ nzPre' = nz
     /\ nzOut' = [op |-> "call", accumulate |-> accumulate, x |-> x, y |-> <<>>,
                  err |-> r.err, val |-> r.val, alt |-> <<>>,
                  before |-> nzEvents]
     /\ nzEvents' = IF accumulate THEN Bump(nzEvents) ELSE nzEvents
     /\ UNCHANGED <<gvars, mvars>>

\* normalizer.inverse(normalizer(x, accumulate=False))
NzRoundTrip(x) ==
  LET r == Normalizer_call(nz, x, FALSE)
      b == IF r.err = NoErr THEN inverse(r.n, r.val) ELSE r
  IN /\ nz' = b.n
     /\ nzPre' = nz
     /\ nzOut' = [op |-> "roundtrip", accumulate |-> FALSE, x |-> x, y |-> <<>>,
                  err |-> b.err, val |-> b.val, alt |-> <<>>,
                  before |-> nzEvents]
     /\ nzEvents' = nzEvents
     /\ UNCHANGED <<gvars, mvars>>

\* normalizer(a), then normalizer(b), beside one call on the concatenation
\* a || b made on a copy of the same starting state (kept in nzOut.alt)
NzChunk(a, b) ==
  LET r1 == Normalizer_call(nz, a, TRUE)
      r2 == Normalizer_call(r1.n, b, TRUE)
      rc == Normalizer_call(nz, a \o b, TRUE)
  IN /\ nz' = r2.n
     /\ nzPre' = nz
     /\ nzOut' = [op |-> "chunk", accumulate |-> TRUE, x |-> a, y |-> b,
                  err |-> r2.err, val |-> r2.val, alt |-> rc.n,
                  before |-> nzEvents]
     /\ nzEvents' = Bump(Bump(nzEvents))
     /\ UNCHANGED <<gvars, mvars>>

GIdle == [op |-> "init"]
NoModel == [kind |-> "none", ripple_used |-> FALSE]
\* mode: nn.Module.training when the operation began;
\* trained: a forward with is_training=True has been made before or by it
MIdle == [op |-> "init", is_training |-> FALSE, inputs |-> <<>>, net |-> <<>>,
          path |-> "", err |-> NoErr, kind |-> "", val |-> <<>>,
          mode |-> TRUE, trained |-> FALSE]

NormInit ==
  /\ \E cap \in 0..MaxCap : nz = Normalizer(Size, cap)
  /\ nzPre = nz
  /\ nzOut = NzIdle
  /\ nzEvents = 0
  /\ gIn = GIdle /\ gOut = GIdle
  /\ variant = NoModel /\ norms = <<>> /\ learned = 0 /\ training = TRUE
  /\ files = <<>> /\ mPre = <<>> /\ mOut = MIdle

NormNext ==
  \/ \E x \in Batches, acc \in BOOLEAN : NzCall(x, acc)
  \/ \E x \in Batches : NzRoundTrip(x)
  \/ \E a \in Batches, b \in Batches : NzChunk(a, b)

SpecNorm == NormInit /\ [][NormNext]_vars

(***************************************************************************)
(* Claims about the Normalizer (checked under SpecNorm)                    *)
(***************************************************************************)
BelowCap(n) == n.num_accumulations < n.max_accumulations

\* C1: a normalize call with accumulate=True made below the cap adds the
\* per-feature sum of the batch rows to the running sum, the per-feature sum
\* of their squares to the running sum of squares, the number of rows to the
\* running count, and 1 to the accumulation-event counter.
C1_AccumulateAdds ==
  (nzOut.op = "call" /\ nzOut.accumulate /\ BelowCap(nzPre)) =>
    /\ nz.acc_sum = [i \in 1..Size |-> nzPre.acc_sum[i] + ColSum(nzOut.x, i)]
    /\ nz.acc_sum_squared =
         [i \in 1..Size |-> nzPre.acc_sum_squared[i] + ColSumSq(nzOut.x, i)]
    /\ nz.acc_count = nzPre.acc_count + Len(nzOut.x)
    /\ nz.num_accumulations = nzPre.num_accumulations + 1

\* what mean and std are read from, and what reading them gives
Statistics(n) ==
  [count |-> n.acc_count, sum |-> n.acc_sum, sum_squared |-> n.acc_sum_squared,
   mean |-> _mean(n), std |-> _std_with_epsilon(n)]

C6_CapFreezesSilently ==
  /\ nz.num_accumulations <= nz.max_accumulations
  /\ (nzOut.op = "call" /\ nzOut.accumulate
        /\ nzOut.before >= nzPre.max_accumulations) =>
       (nz = nzPre /\ nzOut.err = NoErr)

\* C8: inverse(normalize(x, accumulate=False)) returns x, and leaves the
\* Normalizer state as it was, from every reachable state.
C8_RoundTrip ==
  nzOut.op = "roundtrip" =>
    (nzOut.err = NoErr /\ nzOut.val = nzOut.x /\ nz = nzPre)

(***************************************************************************)
(* deform_model.py: the world edges of Model._build_graph                  *)
(***************************************************************************)
\* nodes of the graph-construction inputs
NumNodes == 3

\* common.NodeType members the graph builder tests for, and one it does not
NodeTypes == {"NORMAL", "OBSTACLE", "HANDLE"}

\* world positions, in units of 0.001
Points == {<<0, 0, 0>>, <<3, 4, 0>>, <<6, 0, 0>>}

\* radius = 0.006, in the same units
Radius == 6

\* the (sender, receiver) lists common.triangles_to_edges returns as
\* two_way_connectivity for the undirected edges E, listed in order
RECURSIVE SortedPairs(_)
SortedPairs(E) ==
  IF E = {} THEN <<>>
  ELSE LET e == CHOOSE x \in E :
                  \A y \in E : x[1] < y[1] \/ (x[1] = y[1] /\ x[2] <= y[2])
       IN <<e>> \o SortedPairs(E \ {e})
TwoWayConnectivity(E) ==
  LET one == SortedPairs(E)
  IN [senders   |-> [k \in 1..Len(one) |-> one[k][1]]
                      \o [k \in 1..Len(one) |-> one[k][2]],
      receivers |-> [k \in 1..Len(one) |-> one[k][2]]
                      \o [k \in 1..Len(one) |-> one[k][1]]]

\* the undirected mesh edges the inputs are drawn from: neighbours in a strip
StripEdges == {<<i, i + 1>> : i \in 1..(NumNodes - 1)}

GraphInputs ==
  {[world_pos |-> wp, node_type |-> nt,
    senders |-> TwoWayConnectivity(E).senders,
    receivers |-> TwoWayConnectivity(E).receivers] :
     wp \in [1..NumNodes -> Points], nt \in [1..NumNodes -> NodeTypes],
     E \in SUBSET StripEdges}

\* squared Euclidean distance: torch.cdist(world_pos, world_pos, p=2), squared
DistSq(p, q) ==
  (p[1] - q[1]) * (p[1] - q[1]) + (p[2] - q[2]) * (p[2] - q[2])
    + (p[3] - q[3]) * (p[3] - q[3])

\* the radius test with the boundary let in
WithinRadiusInclusive(p, q) == DistSq(p, q) <= Radius * Radius

\* world_distance_matrix < radius
WithinRadius(p, q) == DistSq(p, q) < Radius * Radius

\* world_connection_matrix after lines 123-132: the radius test, the diagonal
\* cleared, the mesh pairs cleared, the columns of OBSTACLE and HANDLE
\* receivers cleared
world_connection_matrix(inputs) ==
  LET n == Len(inputs.world_pos)
      within == [s \in 1..n, r \in 1..n |->
                   IF WithinRadius(inputs.world_pos[s], inputs.world_pos[r])
                   THEN 1 ELSE 0]
      nodiag == [s \in 1..n, r \in 1..n |-> IF s = r THEN 0 ELSE within[s, r]]
      nomesh == [s \in 1..n, r \in 1..n |->
                   IF \E k \in DOMAIN inputs.senders :
                        inputs.senders[k] = s /\ inputs.receivers[k] = r
                   THEN 0 ELSE nodiag[s, r]]
      no_connection_mask ==
        [r \in 1..n |-> inputs.node_type[r] = "OBSTACLE"
                          \/ inputs.node_type[r] = "HANDLE"]
  IN [s \in 1..n, r \in 1..n |->
        IF no_connection_mask[r] THEN 0 ELSE nomesh[s, r]]

\* torch.nonzero(matrix, as_tuple=True): the index pairs of the nonzero
\* entries in row-major order, as (world_senders, world_receivers)
nonzero(matrix, n) ==
  LET all == [k \in 1..(n * n) |-> <<((k - 1) \div n) + 1, ((k - 1) % n) + 1>>]
      IsSet(pair) == matrix[pair[1], pair[2]] # 0
  IN SelectSeq(all, IsSet)

\* lines 120-134 of Model._build_graph
WorldEdges(inputs) ==
  nonzero(world_connection_matrix(inputs), Len(inputs.world_pos))

\* the next step's inputs arrive: node i has moved to p
GraphMoveNode(i, p) ==
  /\ gOut.op = "built"
  /\ gIn' = [gIn EXCEPT !.world_pos[i] = p]
  /\ gOut' = GIdle
  /\ UNCHANGED <<nvars, mvars>>

GraphBuild ==
  /\ gOut.op = "init"
  /\ gOut' = [op |-> "built", world_edges |-> WorldEdges(gIn)]
  /\ gIn' = gIn
  /\ UNCHANGED <<nvars, mvars>>

GraphInit ==
  /\ gIn \in GraphInputs
  /\ gOut = GIdle
  /\ nz = Normalizer(Size, MaxCap) /\ nzPre = nz /\ nzOut = NzIdle /\ nzEvents = 0
  /\ variant = NoModel /\ norms = <<>> /\ learned = 0 /\ training = TRUE
  /\ files = <<>> /\ mPre = <<>> /\ mOut = MIdle

GraphNext ==
  \/ \E i \in 1..NumNodes, p \in Points : GraphMoveNode(i, p)
  \/ GraphBuild

SpecGraph == GraphInit /\ [][GraphNext]_vars

(***************************************************************************)
(* cloth_model.py and deform_model.py: the Model                           *)
(***************************************************************************)
\* default max_accumulations of a Normalizer
DefaultMaxAccumulations == 1000000

\* common.NodeType.SIZE: the one-hot width (3 + SIZE = 12 columns)
NodeTypeSIZE == 9

\* common.NodeType values
NodeTypeValue(t) ==
  CASE t = "NORMAL" -> 0 [] t = "OBSTACLE" -> 1 [] t = "HANDLE" -> 3

\* F.one_hot(node_type[:, 0], common.NodeType.SIZE)
one_hot(t) == [j \in 1..NodeTypeSIZE |-> IF j = NodeTypeValue(t) + 1 THEN 1 ELSE 0]

VSub(p, q) == [c \in DOMAIN p |-> p[c] - q[c]]
RECURSIVE SumSq(_)
SumSq(v) == IF v = <<>> THEN 0 ELSE Head(v) * Head(v) + SumSq(Tail(v))
\* square root, rounded down to the fixed-point grid
ISqrt(n) == CHOOSE r \in 0..n : r * r <= n /\ (r + 1) * (r + 1) > n
\* torch.norm(v, dim=-1, keepdim=True)
Norm(v) == <<ISqrt(SumSq(v))>>

\* common.triangles_to_edges(cells): every side of every triangle, once per
\* direction
triangles_to_edges(cells) ==
  LET sides == UNION {{<<cells[k][1], cells[k][2]>>, <<cells[k][2], cells[k][3]>>,
                       <<cells[k][3], cells[k][1]>>} : k \in DOMAIN cells}
      undirected == {IF e[1] < e[2] THEN e ELSE <<e[2], e[1]>> : e \in sides}
  IN TwoWayConnectivity(undirected)

\* Model.__init__ (cloth): output, node and edge Normalizers
Cloth_init ==
  [output |-> Normalizer(3, DefaultMaxAccumulations),
   node   |-> Normalizer(3 + NodeTypeSIZE, DefaultMaxAccumulations),
   edge   |-> Normalizer(7, DefaultMaxAccumulations)]

\* Model.__init__ (deforming plate): five Normalizers
Deform_init ==
  [output       |-> Normalizer(3, DefaultMaxAccumulations),
   node         |-> Normalizer(3, DefaultMaxAccumulations),
   node_dynamic |-> Normalizer(1, DefaultMaxAccumulations),
   mesh_edge    |-> Normalizer(8, DefaultMaxAccumulations),
   world_edge   |-> Normalizer(4, DefaultMaxAccumulations)]

NoGraph == <<>>

\* velocity and one-hot type, one row per node (lines 80-83)
Cloth_node_features(inputs) ==
  [i \in DOMAIN inputs.world_pos |->
     VSub(inputs.world_pos[i], inputs.prev_world_pos[i])
       \o one_hot(inputs.node_type[i])]

\* one row of edge_features (lines 89-97) for the edge s -> r
Cloth_edge_row(inputs, s, r) ==
  VSub(inputs.world_pos[s], inputs.world_pos[r])
    \o Norm(VSub(inputs.world_pos[s], inputs.world_pos[r]))
    \o VSub(inputs.mesh_pos[s], inputs.mesh_pos[r])
    \o Norm(VSub(inputs.mesh_pos[s], inputs.mesh_pos[r]))

Cloth_edge_features(inputs, edges) ==
  [k \in DOMAIN edges.senders |->
     Cloth_edge_row(inputs, edges.senders[k], edges.receivers[k])]

\* lines 105-108, after the node Normalizer call nd returned or raised
Cloth_graph_nodes(ns, edges, e, nd) ==
  IF nd.err # NoErr
  THEN [norms |-> [ns EXCEPT !.node = nd.n], err |-> nd.err, graph |-> NoGraph]
  ELSE [norms |-> [ns EXCEPT !.node = nd.n], err |-> NoErr,
        graph |-> [node_features |-> nd.val,
                   mesh_edges |-> [features |-> e.val, senders |-> edges.senders,
                                   receivers |-> edges.receivers]]]

\* lines 99-108, after the edge Normalizer call e returned or raised
Cloth_graph_edges(ns, inputs, is_training, edges, e) ==
  IF e.err # NoErr
  THEN [norms |-> [ns EXCEPT !.edge = e.n], err |-> e.err, graph |-> NoGraph]
  ELSE Cloth_graph_nodes([ns EXCEPT !.edge = e.n], edges, e,
         Normalizer_call(ns.node, Cloth_node_features(inputs), is_training))

\* the graph construction once common.triangles_to_edges has returned edges
Cloth_graph(ns, inputs, is_training, edges) ==
  Cloth_graph_edges(ns, inputs, is_training, edges,
    Normalizer_call(ns.edge, Cloth_edge_features(inputs, edges), is_training))

\* Model._build_graph (cloth): the edge Normalizer is called first (line 101),
\* the node Normalizer after it (lines 106/108), both with is_training as the
\* accumulate flag; an exception ends the construction where it is raised.
Cloth_build_graph(ns, inputs, is_training) ==
  Cloth_graph(ns, inputs, is_training, triangles_to_edges(inputs.cells))

\* Model._update (cloth): acceleration = output_normalizer.inverse(output);
\* position = 2 * cur_position + acceleration - prev_position
Cloth_update(ns, inputs, per_node_network_output) ==
  LET acceleration == inverse(ns.output, per_node_network_output)
  IN IF acceleration.err # NoErr
     THEN [err |-> acceleration.err, val |-> <<>>]
     ELSE [err |-> NoErr,
           val |-> [i \in DOMAIN inputs.world_pos |-> [c \in 1..3 |->
                      2 * inputs.world_pos[i][c] + acceleration.val[i][c]
                        - inputs.prev_world_pos[i][c]]]]

\* lines 112-115, given the graph construction's outcome g
Cloth_forward_from(g, inputs, is_training, net) ==
  LET u == Cloth_update(g.norms, inputs, net)
  IN IF g.err # NoErr
     THEN [norms |-> g.norms, err |-> g.err, kind |-> "raise", val |-> <<>>]
     ELSE IF is_training
     THEN [norms |-> g.norms, err |-> NoErr, kind |-> "raw", val |-> net]
     ELSE IF u.err # NoErr
     THEN [norms |-> g.norms, err |-> u.err, kind |-> "raise", val |-> <<>>]
     ELSE [norms |-> g.norms, err |-> NoErr, kind |-> "integrated", val |-> u.val]

\* Model.forward (cloth): the raw network output when is_training, the
\* integrated position otherwise; net is what learned_model(graph) returns.
Cloth_forward(ns, inputs, is_training, net) ==
  Cloth_forward_from(Cloth_build_graph(ns, inputs, is_training),
                     inputs, is_training, net)

\* The three-argument call bound as the caller means it (batched_data,
\* node_num, accumulate), accumulating in place.
Call3Accumulates(n, batched_data, node_num, accumulate) ==
  IF accumulate /\ n.num_accumulations < n.max_accumulations
  THEN CallAccumulatesAlways(n, batched_data, accumulate)
  ELSE Normalizer_call(n, batched_data, FALSE)

\* normalizer(features, None, is_training): three positional arguments to
\* __call__(self, batched_data, accumulate=True) raise TypeError before the
\* body runs.
Normalizer_call3(n, batched_data, node_num, accumulate) ==
  [n |-> n, err |-> "TypeError", val |-> <<>>]

\* unsorted_segment_operation(data, receivers, num_nodes, 'max' / 'min'):
\* per receiver, over the edges that end in it (0 where there are none)
SegmentMax(data, segment_ids, i) ==
  LET mine == {data[k] : k \in {j \in DOMAIN data : segment_ids[j] = i}}
  IN IF mine = {} THEN 0 ELSE CHOOSE x \in mine : \A y \in mine : y <= x
SegmentMin(data, segment_ids, i) ==
  LET mine == {data[k] : k \in {j \in DOMAIN data : segment_ids[j] = i}}
  IN IF mine = {} THEN 0 ELSE CHOOSE x \in mine : \A y \in mine : x <= y

\* world_edge_features (lines 135-140): one row per world edge
Deform_world_edge_row(inputs, s, r) ==
  VSub(inputs.world_pos[s], inputs.world_pos[r])
    \o Norm(VSub(inputs.world_pos[s], inputs.world_pos[r]))

Deform_world_edge_features(inputs, world) ==
  [k \in DOMAIN world |-> Deform_world_edge_row(inputs, world[k][1], world[k][2])]

\* mesh_edge_features (lines 148-154): one row per mesh edge
Deform_mesh_edge_features(inputs) ==
  [k \in DOMAIN inputs.senders |->
     VSub(inputs.mesh_pos[inputs.senders[k]], inputs.mesh_pos[inputs.receivers[k]])
       \o Norm(VSub(inputs.mesh_pos[inputs.senders[k]],
                    inputs.mesh_pos[inputs.receivers[k]]))
       \o Deform_world_edge_row(inputs, inputs.senders[k], inputs.receivers[k])]

\* masked_target_world_pos - masked_world_pos (lines 162-166)
Deform_kinematic(inputs) ==
  [i \in DOMAIN inputs.world_pos |->
     IF inputs.node_type[i] = "OBSTACLE"
     THEN VSub(inputs.target_world_pos[i], inputs.world_pos[i])
     ELSE <<0, 0, 0>>]

\* node_features (lines 167-171), kinematic_nodes_features being the node
\* Normalizer's output
Deform_node_features(inputs, kinematic_nodes_features) ==
  [i \in DOMAIN inputs.world_pos |->
     (IF inputs.node_type[i] = "OBSTACLE"
      THEN kinematic_nodes_features[i] ELSE <<0, 0, 0>>)
       \o one_hot(inputs.node_type[i])]

\* torch.norm(all_relative_world_pos, dim=-1), one length per mesh edge
Deform_edge_lengths(inputs) ==
  [k \in DOMAIN inputs.senders |->
     Deform_world_edge_row(inputs, inputs.senders[k], inputs.receivers[k])[4]]

\* max_node_dynamic - min_node_dynamic (lines 174-179)
Deform_node_dynamic(inputs) ==
  [i \in DOMAIN inputs.world_pos |->
     <<SegmentMax(Deform_edge_lengths(inputs), inputs.receivers, i)
         - SegmentMin(Deform_edge_lengths(inputs), inputs.receivers, i)>>]

\* lines 182-187: the graph, after the calls of lines 144, 158, 166 and 180
Deform_graph_done(ns, inputs, world, w, m, kn) ==
  [norms |-> ns, err |-> NoErr,
   graph |-> [node_features |-> Deform_node_features(inputs, kn.val),
              mesh_edges |-> [features |-> m.val, senders |-> inputs.senders,
                              receivers |-> inputs.receivers],
              world_edges |-> [features |-> w.val, pairs |-> world]]]

\* line 180, with ripple_used: the node-dynamic Normalizer call dn
Deform_graph_dynamic(ns, inputs, world, w, m, kn, dn) ==
  IF dn.err # NoErr
  THEN [norms |-> [ns EXCEPT !.node_dynamic = dn.n], err |-> dn.err,
        graph |-> NoGraph]
  ELSE Deform_graph_done([ns EXCEPT !.node_dynamic = dn.n], inputs, world, w, m, kn)

\* lines 162-187, after the node Normalizer call kn (line 166, accumulate
\* left at its default True)
Deform_graph_nodes(ns, ripple_used, inputs, world, w, m, kn) ==
  IF kn.err # NoErr
  THEN [norms |-> [ns EXCEPT !.node = kn.n], err |-> kn.err, graph |-> NoGraph]
  ELSE IF ripple_used
  THEN Deform_graph_dynamic([ns EXCEPT !.node = kn.n], inputs, world, w, m, kn,
         Normalizer_call(ns.node_dynamic, Deform_node_dynamic(inputs), TRUE))
  ELSE Deform_graph_done([ns EXCEPT !.node = kn.n], inputs, world, w, m, kn)

\* lines 156-187, after the mesh-edge Normalizer call m (line 158)
Deform_graph_mesh(ns, ripple_used, inputs, world, w, m) ==
  IF m.err # NoErr
  THEN [norms |-> [ns EXCEPT !.mesh_edge = m.n], err |-> m.err, graph |-> NoGraph]
  ELSE Deform_graph_nodes([ns EXCEPT !.mesh_edge = m.n], ripple_used, inputs,
         world, w, m, Normalizer_call(ns.node, Deform_kinematic(inputs), TRUE))

\* lines 142-187, after the world-edge Normalizer call w (line 144)
Deform_graph_world(ns, ripple_used, inputs, is_training, world, w) ==
  IF w.err # NoErr
  THEN [norms |-> [ns EXCEPT !.world_edge = w.n], err |-> w.err, graph |-> NoGraph]
  ELSE Deform_graph_mesh([ns EXCEPT !.world_edge = w.n], ripple_used, inputs,
         world, w,
         Normalizer_call3(ns.mesh_edge, Deform_mesh_edge_features(inputs),
                          "None", is_training))

\* the graph construction once the world edges are selected
Deform_graph(ns, ripple_used, inputs, is_training, world) ==
  Deform_graph_world(ns, ripple_used, inputs, is_training, world,
    Normalizer_call3(ns.world_edge, Deform_world_edge_features(inputs, world),
                     "None", is_training))

\* Model._build_graph (deforming plate), in the order of its Normalizer
\* calls: world edges (line 144), mesh edges (line 158), node (line 166) and,
\* with ripple_used, node dynamic (line 180).
Deform_build_graph(ns, ripple_used, inputs, is_training) ==
  Deform_graph(ns, ripple_used, inputs, is_training, WorldEdges(inputs))

\* Model._update (deforming plate): velocity = output_normalizer.inverse(output);
\* returns (cur_position + velocity, cur_position, velocity)
Deform_update(ns, inputs, per_node_network_output) ==
  LET velocity == inverse(ns.output, per_node_network_output)
  IN IF velocity.err # NoErr
     THEN [err |-> velocity.err, val |-> <<>>]
     ELSE [err |-> NoErr,
           val |-> <<[i \in DOMAIN inputs.world_pos |-> [c \in 1..3 |->
                        inputs.world_pos[i][c] + velocity.val[i][c]]],
                     inputs.world_pos, velocity.val>>]

\* A forward that, when training, first feeds the network output to the
\* output Normalizer, accumulating in place.
ForwardFeedsOutputNormalizer(g, inputs, is_training, net) ==
  LET fed == IF is_training
             THEN [g.norms EXCEPT !.output = AccumulateInPlace(@, net).n]
             ELSE g.norms
      u == Deform_update(fed, inputs, net)
  IN IF g.err # NoErr
     THEN [norms |-> fed, err |-> g.err, kind |-> "raise", val |-> <<>>]
     ELSE IF is_training
     THEN [norms |-> fed, err |-> NoErr, kind |-> "raw", val |-> net]
     ELSE IF u.err # NoErr
     THEN [norms |-> fed, err |-> u.err, kind |-> "raise", val |-> <<>>]
     ELSE [norms |-> fed, err |-> NoErr, kind |-> "integrated", val |-> u.val]

\* lines 191-194, given the graph construction's outcome g
Deform_forward_from(g, inputs, is_training, net) ==
  LET u == Deform_update(g.norms, inputs, net)
  IN IF g.err # NoErr
     THEN [norms |-> g.norms, err |-> g.err, kind |-> "raise", val |-> <<>>]
     ELSE IF is_training
     THEN [norms |-> g.norms, err |-> NoErr, kind |-> "raw", val |-> net]
     ELSE IF u.err # NoErr
     THEN [norms |-> g.norms, err |-> u.err, kind |-> "raise", val |-> <<>>]
     ELSE [norms |-> g.norms, err |-> NoErr, kind |-> "integrated", val |-> u.val]

\* Model.forward (deforming plate)
Deform_forward(ns, ripple_used, inputs, is_training, net) ==
  Deform_forward_from(Deform_build_graph(ns, ripple_used, inputs, is_training),
                      inputs, is_training, net)

\* Model.save_model (cloth): four blobs under the path
Cloth_save_model(ns, lm) ==
  [learned_model |-> lm, output_normalizer |-> ns.output,
   edge_normalizer |-> ns.edge, node_normalizer |-> ns.node]

\* Model.load_model (cloth)
Cloth_load_model(ns, lm, blobs) ==
  [learned |-> blobs.learned_model,
   norms |-> [ns EXCEPT !.output = blobs.output_normalizer,
                        !.edge = blobs.edge_normalizer,
                        !.node = blobs.node_normalizer]]

\* Model.save_model (deforming plate): five blobs; the node-dynamic
\* Normalizer is not among them
Deform_save_model(ns, lm) ==
  [learned_model |-> lm, output_normalizer |-> ns.output,
   mesh_edge_normalizer |-> ns.mesh_edge,
   world_edge_normalizer |-> ns.world_edge, node_normalizer |-> ns.node]

\* A load that restores the Normalizers and keeps the network it has.
LoadKeepsNetwork(ns, lm, blobs) ==
  [learned |-> lm,
   norms |-> [ns EXCEPT !.output = blobs.output_normalizer,
                        !.mesh_edge = blobs.mesh_edge_normalizer,
                        !.world_edge = blobs.world_edge_normalizer,
                        !.node = blobs.node_normalizer]]

\* Model.load_model (deforming plate)
Deform_load_model(ns, lm, blobs) ==
  [learned |-> blobs.learned_model,
   norms |-> [ns EXCEPT !.output = blobs.output_normalizer,
                        !.mesh_edge = blobs.mesh_edge_normalizer,
                        !.world_edge = blobs.world_edge_normalizer,
                        !.node = blobs.node_normalizer]]

(***************************************************************************)
(* One Model instance and the calls a driver makes on it                   *)
(***************************************************************************)
\* optimizer steps the driver takes on learned_model
MaxTrain == 2

Paths == {"a", "b"}
NoFile == [exists |-> FALSE]

\* cloth inputs, positions in units of 0.1: three nodes, one triangle
ClothWorldPos == <<(<<0, 0, 0>>), (<<10, 0, 0>>), (<<0, 10, 0>>)>>
ClothInputs ==
  {[world_pos |-> ClothWorldPos, prev_world_pos |-> prev,
    node_type |-> <<"NORMAL", "NORMAL", "HANDLE">>,
    cells |-> <<(<<1, 2, 3>>)>>,
    mesh_pos |-> <<(<<0, 0>>), (<<10, 0>>), (<<0, 10>>)>>] :
     prev \in {ClothWorldPos, <<(<<0, 0, 0>>), (<<9, 0, 0>>), (<<0, 10, 0>>)>>}}

\* deforming-plate inputs, positions in units of 0.001
DeformWorldPos == <<(<<0, 0, 0>>), (<<3, 4, 0>>), (<<6, 0, 0>>)>>
DeformInputs ==
  {[world_pos |-> DeformWorldPos,
    target_world_pos |-> <<(<<0, 0, 0>>), (<<3, 4, 0>>), (<<6, 1, 0>>)>>,
    node_type |-> nt,
    senders |-> TwoWayConnectivity(E).senders,
    receivers |-> TwoWayConnectivity(E).receivers,
    mesh_pos |-> <<(<<0, 0, 0>>), (<<5, 0, 0>>), (<<10, 0, 0>>)>>] :
     nt \in {<<"NORMAL", "NORMAL", "OBSTACLE">>, <<"NORMAL", "NORMAL", "NORMAL">>},
     E \in {{<<1, 2>>}}}

\* what learned_model(graph) may return: one 3-vector per node
NetOutputs ==
  {[i \in 1..3 |-> <<0, 0, 0>>], [i \in 1..3 |-> <<1, 0, -1>>]}

Done(op, is_training, inputs, net, path, r) ==
  [op |-> op, is_training |-> is_training, inputs |-> inputs, net |-> net,
   path |-> path, err |-> r.err, kind |-> r.kind, val |-> r.val,
   mode |-> training,
   trained |-> mOut.trained \/ (op = "forward" /\ is_training)]

Plain == [err |-> NoErr, kind |-> "", val |-> <<>>]

\* model(inputs, is_training) on a cloth Model
ClothForward(inputs, is_training, net) ==
  LET r == Cloth_forward(norms, inputs, is_training, net)
  IN /\ variant.kind = "cloth"
     /\ norms' = r.norms
     /\ mPre' = [norms |-> norms, learned |-> learned]
     /\ mOut' = Done("forward", is_training, inputs, net, "", r)
     /\ UNCHANGED <<variant, learned, training, files, nvars, gvars>>

\* model(inputs, is_training) on a deforming-plate Model
DeformForward(inputs, is_training, net) ==
  LET r == Deform_forward(norms, variant.ripple_used, inputs, is_training, net)
  IN /\ variant.kind = "deform"
     /\ norms' = r.norms
     /\ mPre' = [norms |-> norms, learned |-> learned]
     /\ mOut' = Done("forward", is_training, inputs, net, "", r)
     /\ UNCHANGED <<variant, learned, training, files, nvars, gvars>>

\* Model.evaluate: self.eval() and self.learned_model.eval()
Evaluate ==
  /\ training' = FALSE
  /\ mPre' = [norms |-> norms, learned |-> learned]
  /\ mOut' = Done("evaluate", FALSE, <<>>, <<>>, "", Plain)
  /\ UNCHANGED <<variant, norms, learned, files, nvars, gvars>>

\* the driver's optimizer changes the parameters of learned_model
OptimizerStep ==
  /\ learned < MaxTrain
  /\ learned' = learned + 1
  /\ mPre' = [norms |-> norms, learned |-> learned]
  /\ mOut' = Done("step", FALSE, <<>>, <<>>, "", Plain)
  /\ UNCHANGED <<variant, norms, training, files, nvars, gvars>>

\* model._update(inputs, per_node_network_output), called on its own
Update(inputs, net) ==
  LET u == IF variant.kind = "cloth" THEN Cloth_update(norms, inputs, net)
           ELSE Deform_update(norms, inputs, net)
  IN /\ inputs \in (IF variant.kind = "cloth" THEN ClothInputs ELSE DeformInputs)
     /\ mPre' = [norms |-> norms, learned |-> learned]
     /\ mOut' = Done("update", FALSE, inputs, net, "",
                     [err |-> u.err, val |-> u.val,
                      kind |-> IF u.err = NoErr THEN "integrated" ELSE "raise"])
     /\ UNCHANGED <<variant, norms, learned, training, files, nvars, gvars>>

\* Model.save_model(path); snapshot records the whole Model at the save
SaveModel(path) ==
  /\ files' = [files EXCEPT ![path] =
       [exists |-> TRUE,
        blobs |-> IF variant.kind = "cloth" THEN Cloth_save_model(norms, learned)
                  ELSE Deform_save_model(norms, learned),
        snapshot |-> [norms |-> norms, learned |-> learned]]]
  /\ mPre' = [norms |-> norms, learned |-> learned]
  /\ mOut' = Done("save", FALSE, <<>>, <<>>, path, Plain)
  /\ UNCHANGED <<variant, norms, learned, training, nvars, gvars>>

\* Model.load_model(path); torch.load of a file never written raises
\* FileNotFoundError at the first of the loads
LoadModel(path) ==
  LET l == IF variant.kind = "cloth"
           THEN Cloth_load_model(norms, learned, files[path].blobs)
           ELSE Deform_load_model(norms, learned, files[path].blobs)
  IN /\ IF files[path].exists
        THEN /\ norms' = l.norms
             /\ learned' = l.learned
             /\ mOut' = Done("load", FALSE, <<>>, <<>>, path, Plain)
        ELSE /\ UNCHANGED <<norms, learned>>
             /\ mOut' = Done("load", FALSE, <<>>, <<>>, path,
                             [err |-> "FileNotFoundError", kind |-> "raise",
                              val |-> <<>>])
     /\ mPre' = [norms |-> norms, learned |-> learned]
     /\ UNCHANGED <<variant, training, files, nvars, gvars>>

Init ==
  /\ variant \in {[kind |-> "cloth", ripple_used |-> FALSE],
                  [kind |-> "deform", ripple_used |-> FALSE],
                  [kind |-> "deform", ripple_used |-> TRUE]}
  /\ norms = IF variant.kind = "cloth" THEN Cloth_init ELSE Deform_init
  /\ learned = 0
  /\ training = TRUE
  /\ files = [p \in Paths |-> NoFile]
  /\ mPre = [norms |-> norms, learned |-> learned]
  /\ mOut = MIdle
  /\ nz = Normalizer(Size, MaxCap) /\ nzPre = nz /\ nzOut = NzIdle /\ nzEvents = 0
  /\ gIn = GIdle /\ gOut = GIdle

Next ==
  \/ \E inputs \in ClothInputs, is_training \in BOOLEAN, net \in NetOutputs :
       ClothForward(inputs, is_training, net)
  \/ \E inputs \in DeformInputs, is_training \in BOOLEAN, net \in NetOutputs :
       DeformForward(inputs, is_training, net)
  \/ Evaluate
  \/ OptimizerStep
  \/ \E inputs \in ClothInputs \cup DeformInputs, net \in NetOutputs :
       Update(inputs, net)
  \/ \E path \in Paths : SaveModel(path)
  \/ \E path \in Paths : LoadModel(path)

Spec == Init /\ [][Next]_vars

(***************************************************************************)
(* Claims about the Model (checked under Spec)                             *)
(***************************************************************************)
\* C3: a forward call with is_training=False leaves the accumulators of every
\* Normalizer the Model owns unchanged, whatever calls came before it.
C3_EvalFreezesNormalizers ==
  (mOut.op = "forward" /\ ~mOut.is_training) => norms = mPre.norms

\* an evaluation forward on a cloth Model, made after evaluate() and after
\* a training forward
C3_Witness ==
  /\ mOut.op = "forward" /\ ~mOut.is_training /\ mOut.trained /\ ~mOut.mode
  /\ variant.kind = "cloth"

C5_InstanceModeDecidesOutput ==
  mOut.op = "forward" =>
    IF mOut.mode THEN mOut.kind = "raw" ELSE mOut.kind = "integrated"

\* C9: with is_training=False the cloth Model returns, for every node,
\* 2 * world_pos + acceleration - prev_world_pos, the acceleration being the
\* output Normalizer's inverse of the raw network output.
C9_ClothIntegration ==
  (mOut.op = "forward" /\ variant.kind = "cloth" /\ ~mOut.is_training) =>
    /\ mOut.err = NoErr
    /\ LET acceleration == inverse(norms.output, mOut.net).val
       IN mOut.val = [i \in DOMAIN mOut.inputs.world_pos |-> [c \in 1..3 |->
                        2 * mOut.inputs.world_pos[i][c] + acceleration[i][c]
                          - mOut.inputs.prev_world_pos[i][c]]]

C11_NodeFeaturesByType ==
  (variant.kind = "deform" /\ mOut.op = "forward") =>
    LET inputs == mOut.inputs
        g == Deform_build_graph(mPre.norms, variant.ripple_used, inputs,
                                mOut.is_training)
    IN /\ g.err = NoErr
       /\ DOMAIN g.graph.node_features = DOMAIN inputs.world_pos
       /\ \A i \in DOMAIN inputs.world_pos :
            g.graph.node_features[i] =
              (IF inputs.node_type[i] = "OBSTACLE"
               THEN Normalizer_call(g.norms.node,
                      <<VSub(inputs.target_world_pos[i], inputs.world_pos[i])>>,
                      FALSE).val[1]
               ELSE <<0, 0, 0>>) \o one_hot(inputs.node_type[i])

\* C12: a forward call (training or evaluation, cloth or deforming plate), a
\* call of _update, save_model and evaluate each leave the output Normalizer
\* with the accumulators it had before the call; of the Model's operations
\* only load_model may put another one in its place.
C12_OutputNormalizerOnlyRead ==
  mOut.op \in {"forward", "update", "save", "evaluate"} =>
    norms.output = mPre.norms.output

\* a call of _update made after a training forward, evaluate() and a save
C12_Witness ==
  /\ mOut.op = "update" /\ mOut.trained /\ ~training
  /\ \E p \in Paths : files[p].exists

(***************************************************************************)
(* Claims about the graph builder (checked under SpecGraph)                *)
(***************************************************************************)
Occurrences(seq, e) == Cardinality({k \in DOMAIN seq : seq[k] = e})

IsMeshPair(inputs, s, r) ==
  \E k \in DOMAIN inputs.senders :
    inputs.senders[k] = s /\ inputs.receivers[k] = r

====
